---- MODULE Spec2Model ----
(***************************************************************************)
(* The Handlebars tokenizer of vs/languages/handlebars/common/handlebars.ts *)
(* HandlebarsState (a lexical state layered on the HTML state) and the two  *)
(* state-producing hooks of HandlebarsMode.                                 *)
(*                                                                          *)
(* Text is a sequence of one-character strings.  A document is a sequence   *)
(* of lines separated by "\n"; the editor tokenizes it line by line,        *)
(* handing a clone of the end state of a line to the next one.              *)
(***************************************************************************)
EXTENDS Integers, Sequences, FiniteSets, TLC

\* ------------------------------------------------------------------ bounds
\* A document is a concatenation of at most MaxChunks chunks.
MaxChunks == 3
\* getLeavingNestedModeData is called at most MaxResets times in a run.
MaxResets == 1
\* An expression body is a concatenation of at most MaxWordChunks chunks.
MaxWordChunks == 3

\* ------------------------------------------------------------ input domain
NL == "\n"

Alphabet == {"{", "}", " ", "\t", "#", "/", "a", "<", NL}

ElseWord == <<"e", "l", "s", "e">>

Chunks == {<<c>> : c \in Alphabet} \cup {ElseWord, <<"{", "{">>, <<"}", "}">>}

RECURSIVE DocsOf(_)
DocsOf(n) ==
    IF n = 0 THEN {<<>>}
    ELSE LET p == DocsOf(n - 1) IN p \cup {d \o c : d \in p, c \in Chunks}

Docs == DocsOf(MaxChunks)

\* The first line of a document, and what follows its line break.
RECURSIVE FirstBreak(_, _)
FirstBreak(doc, i) ==
    IF i > Len(doc) THEN 0
    ELSE IF doc[i] = NL THEN i
    ELSE FirstBreak(doc, i + 1)

HasBreak(doc) == FirstBreak(doc, 1) # 0

FirstLine(doc) ==
    IF HasBreak(doc) THEN SubSeq(doc, 1, FirstBreak(doc, 1) - 1) ELSE doc

AfterFirstLine(doc) ==
    IF HasBreak(doc) THEN SubSeq(doc, FirstBreak(doc, 1) + 1, Len(doc)) ELSE <<>>

\* --------------------------------------------------------------- the enums
\* export enum States
States == {"HTML", "Expression", "UnescapedExpression"}

\* htmlMode.States, as far as the host model below uses them
HtmlStates == {"Content", "OpeningStartTag"}

\* handlebarsTokenTypes
EMBED == "EMBED"
EMBED_UNESCAPED == "EMBED_UNESCAPED"
KEYWORD == "KEYWORD"
TYPE_VARIABLE == "VARIABLE"

\* ------------------------------------------------------------- the cursor
\* modes.IStream over one line: `source` is the line, `pos` the number of
\* characters already consumed.
NoChar == "<eos>"

peek(source, pos) == IF pos < Len(source) THEN source[pos + 1] ELSE NoChar

StartsWith(source, pos, literal) ==
    /\ pos + Len(literal) <= Len(source)
    /\ SubSeq(source, pos + 1, pos + Len(literal)) = literal

\* The position after advanceIfString(literal): unchanged on a mismatch.
advanceIfString(source, pos, literal) ==
    IF StartsWith(source, pos, literal) THEN pos + Len(literal) ELSE pos

IsWhitespace(c) == c \in {" ", "\t"}

\* /^[^}]/: the class without \s
IsNameChar_withSpace(c) == c # NoChar /\ c # "}"

\* /^[^\s}]/
IsNameChar(c) == c # NoChar /\ ~IsWhitespace(c) /\ c # "}"

RECURSIVE skipWhitespace(_, _)
skipWhitespace(source, pos) ==
    IF IsWhitespace(peek(source, pos)) THEN skipWhitespace(source, pos + 1) ELSE pos

RECURSIVE advanceWhile(_, _)
advanceWhile(source, pos) ==
    IF IsNameChar(peek(source, pos)) THEN advanceWhile(source, pos + 1) ELSE pos

goBack(pos, n) == pos - n

\* ---------------------------------------------------------------- states
\* new HandlebarsState(modeId, kind, handlebarsKind, lastTagName, ...)
HandlebarsState(modeId, kind, handlebarsKind, lastTagName, lastAttributeName, embeddedContentType, attributeValueQuote, attributeValueLength) ==
    [cls |-> "HandlebarsState",
     modeId |-> modeId,
     kind |-> kind,
     handlebarsKind |-> handlebarsKind,
     lastTagName |-> lastTagName,
     lastAttributeName |-> lastAttributeName,
     embeddedContentType |-> embeddedContentType,
     attributeValueQuote |-> attributeValueQuote,
     attributeValueLength |-> attributeValueLength]

\* new htmlMode.State(modeId, kind, lastTagName, ...): the host's own state
HtmlState(modeId, kind, lastTagName, lastAttributeName, embeddedContentType, attributeValueQuote, attributeValueLength) ==
    [cls |-> "State",
     modeId |-> modeId,
     kind |-> kind,
     lastTagName |-> lastTagName,
     lastAttributeName |-> lastAttributeName,
     embeddedContentType |-> embeddedContentType,
     attributeValueQuote |-> attributeValueQuote,
     attributeValueLength |-> attributeValueLength]

\* The fields a HandlebarsState inherits from htmlMode.State.
InheritedFields ==
    {"modeId", "kind", "lastTagName", "lastAttributeName",
     "embeddedContentType", "attributeValueQuote", "attributeValueLength"}

Inherited(s) == [f \in InheritedFields |-> s[f]]

ModeId == "handlebars"

\* ------------------------------------------------------------- the host
\* htmlMode.State.tokenize: the markup tokenizer this layer delegates to.
\* In content a `<` opens a tag; inside a tag a run of whitespace is
\* skipped and a run of letters is the tag name; any other character is
\* consumed on its own and returns the host to content.
IsLetter(c) == c \in {"a", "e", "l", "s"}

RECURSIVE advanceLetters(_, _)
advanceLetters(source, pos) ==
    IF IsLetter(peek(source, pos)) THEN advanceLetters(source, pos + 1) ELSE pos

htmlTokenize(this, source, pos) ==
    IF this.kind = "Content" /\ peek(source, pos) = "<"
    THEN [type |-> "delim", pos |-> pos + 1,
          state |-> [this EXCEPT !.kind = "OpeningStartTag"]]
    ELSE IF this.kind = "OpeningStartTag" /\ skipWhitespace(source, pos) > pos
    THEN [type |-> "", pos |-> skipWhitespace(source, pos), state |-> this]
    ELSE IF this.kind = "OpeningStartTag" /\ advanceLetters(source, pos) > pos
    THEN [type |-> "tag", pos |-> advanceLetters(source, pos),
          state |-> [this EXCEPT !.lastTagName =
                         SubSeq(source, pos + 1, advanceLetters(source, pos))]]
    ELSE [type |-> "", pos |-> IF pos < Len(source) THEN pos + 1 ELSE pos,
          state |-> [this EXCEPT !.kind = "Content"]]

\* ------------------------------------------------- HandlebarsState.tokenize
\* The outcome of one call: the token type, the cursor after the call and
\* the state as mutated by the call.  `delegated` tells that the call ended
\* in super.tokenize, `rewoundTo` the cursor right after goBack (-1 when
\* the call did not rewind).
Result(type, pos, state, rewoundTo) ==
    [handled |-> TRUE, type |-> type, pos |-> pos, state |-> state,
     delegated |-> FALSE, rewoundTo |-> rewoundTo]

\* `break`: no rule of this layer matched; the cursor is left at pos.
Break(pos, state, rewoundTo) ==
    [handled |-> FALSE, type |-> "", pos |-> pos, state |-> state,
     delegated |-> FALSE, rewoundTo |-> rewoundTo]

\* The delimiters, each preceded by a mistyped variant of it.
OPEN_UNESCAPED_two == <<"{", "{">>
OPEN_UNESCAPED == <<"{", "{", "{">>

OPEN_EMBED_one == <<"{">>
OPEN_EMBED == <<"{", "{">>

CLOSE_EMBED_one == <<"}">>
CLOSE_EMBED == <<"}", "}">>

CLOSE_UNESCAPED_two == <<"}", "}">>
CLOSE_UNESCAPED == <<"}", "}", "}">>

\* the case with the two assignments to handlebarsKind exchanged
tokenizeHTML_swappedKind(this, source, pos) ==
    IF advanceIfString(source, pos, OPEN_UNESCAPED) > pos
    THEN Result(EMBED_UNESCAPED, advanceIfString(source, pos, OPEN_UNESCAPED),
                [this EXCEPT !.handlebarsKind = "Expression"], -1)
    ELSE IF advanceIfString(source, pos, OPEN_EMBED) > pos
    THEN Result(EMBED, advanceIfString(source, pos, OPEN_EMBED),
                [this EXCEPT !.handlebarsKind = "UnescapedExpression"], -1)
    ELSE Break(pos, this, -1)

\* the case taken only while the markup phase is content
tokenizeHTML_contentOnly(this, source, pos) ==
    IF this.kind = "Content" /\ advanceIfString(source, pos, OPEN_UNESCAPED) > pos
    THEN Result(EMBED_UNESCAPED, advanceIfString(source, pos, OPEN_UNESCAPED),
                [this EXCEPT !.handlebarsKind = "UnescapedExpression"], -1)
    ELSE IF this.kind = "Content" /\ advanceIfString(source, pos, OPEN_EMBED) > pos
    THEN Result(EMBED, advanceIfString(source, pos, OPEN_EMBED),
                [this EXCEPT !.handlebarsKind = "Expression"], -1)
    ELSE Break(pos, this, -1)

\* case States.HTML
tokenizeHTML(this, source, pos) ==
    IF advanceIfString(source, pos, OPEN_UNESCAPED) > pos
    THEN Result(EMBED_UNESCAPED, advanceIfString(source, pos, OPEN_UNESCAPED),
                [this EXCEPT !.handlebarsKind = "UnescapedExpression"], -1)
    ELSE IF advanceIfString(source, pos, OPEN_EMBED) > pos
    THEN Result(EMBED, advanceIfString(source, pos, OPEN_EMBED),
                [this EXCEPT !.handlebarsKind = "Expression"], -1)
    ELSE Break(pos, this, -1)

\* endsElse without the `}` alternative
endsElse_noBrace(next) == next = " " \/ next = "\t"

\* next === ' ' || next === '\t' || next === '}'
endsElse(next) == next = " " \/ next = "\t" \/ next = "}"

\* a rewind one character short
rewindElse_three(pos) == goBack(pos, 3)

\* stream.goBack(4)
rewindElse(pos) == goBack(pos, 4)

\* if (stream.advanceIfString('else')) { ... } and the variable rule after it
tokenizeElseOrVariable(this, source, pos) ==
    LET afterElse == advanceIfString(source, pos, ElseWord)
        matched == afterElse > pos
    IN  IF matched /\ endsElse(peek(source, afterElse))
        THEN Result(KEYWORD, afterElse, this, -1)
        ELSE LET start == IF matched THEN rewindElse(afterElse) ELSE pos
                 back == IF matched THEN start ELSE -1
             IN  IF advanceWhile(source, start) > start
                 THEN Result(TYPE_VARIABLE, advanceWhile(source, start), this, back)
                 ELSE Break(start, this, back)

\* the case without the `/` rule
tokenizeExpression_noSlash(this, source, pos) ==
    IF this.handlebarsKind = "Expression"
       /\ advanceIfString(source, pos, CLOSE_EMBED) > pos
    THEN Result(EMBED, advanceIfString(source, pos, CLOSE_EMBED),
                [this EXCEPT !.handlebarsKind = "HTML"], -1)
    ELSE IF this.handlebarsKind = "UnescapedExpression"
            /\ advanceIfString(source, pos, CLOSE_UNESCAPED) > pos
    THEN Result(EMBED_UNESCAPED, advanceIfString(source, pos, CLOSE_UNESCAPED),
                [this EXCEPT !.handlebarsKind = "HTML"], -1)
    ELSE IF skipWhitespace(source, pos) > pos
    THEN Result("", skipWhitespace(source, pos), this, -1)
    ELSE IF peek(source, pos) = "#"
    THEN Result(KEYWORD, advanceWhile(source, pos), this, -1)
    ELSE tokenizeElseOrVariable(this, source, pos)

\* the case with the whitespace test `.length >= 0`
tokenizeExpression_emptyWhitespace(this, source, pos) ==
    IF this.handlebarsKind = "Expression"
       /\ advanceIfString(source, pos, CLOSE_EMBED) > pos
    THEN Result(EMBED, advanceIfString(source, pos, CLOSE_EMBED),
                [this EXCEPT !.handlebarsKind = "HTML"], -1)
    ELSE IF this.handlebarsKind = "UnescapedExpression"
            /\ advanceIfString(source, pos, CLOSE_UNESCAPED) > pos
    THEN Result(EMBED_UNESCAPED, advanceIfString(source, pos, CLOSE_UNESCAPED),
                [this EXCEPT !.handlebarsKind = "HTML"], -1)
    ELSE IF skipWhitespace(source, pos) >= pos
    THEN Result("", skipWhitespace(source, pos), this, -1)
    ELSE IF peek(source, pos) = "#"
    THEN Result(KEYWORD, advanceWhile(source, pos), this, -1)
    ELSE IF peek(source, pos) = "/"
    THEN Result(KEYWORD, advanceWhile(source, pos), this, -1)
    ELSE tokenizeElseOrVariable(this, source, pos)

\* case States.Expression: case States.UnescapedExpression:
tokenizeExpression(this, source, pos) ==
    IF this.handlebarsKind = "Expression"
       /\ advanceIfString(source, pos, CLOSE_EMBED) > pos
    THEN Result(EMBED, advanceIfString(source, pos, CLOSE_EMBED),
                [this EXCEPT !.handlebarsKind = "HTML"], -1)
    ELSE IF this.handlebarsKind = "UnescapedExpression"
            /\ advanceIfString(source, pos, CLOSE_UNESCAPED) > pos
    THEN Result(EMBED_UNESCAPED, advanceIfString(source, pos, CLOSE_UNESCAPED),
                [this EXCEPT !.handlebarsKind = "HTML"], -1)
    ELSE IF skipWhitespace(source, pos) > pos
    THEN Result("", skipWhitespace(source, pos), this, -1)
    ELSE IF peek(source, pos) = "#"
    THEN Result(KEYWORD, advanceWhile(source, pos), this, -1)
    ELSE IF peek(source, pos) = "/"
    THEN Result(KEYWORD, advanceWhile(source, pos), this, -1)
    ELSE tokenizeElseOrVariable(this, source, pos)

\* return super.tokenize(stream)
superTokenize(own, source) ==
    LET h == htmlTokenize(own.state, source, own.pos)
    IN  [handled |-> TRUE, type |-> h.type, pos |-> h.pos, state |-> h.state,
         delegated |-> TRUE, rewoundTo |-> own.rewoundTo]

\* a dispatch that tries the opening delimiters in every sub-mode
tokenize_openAnywhere(this, source, pos) ==
    LET own == IF this.handlebarsKind = "HTML" \/ tokenizeHTML(this, source, pos).handled
               THEN tokenizeHTML(this, source, pos)
               ELSE tokenizeExpression(this, source, pos)
    IN  IF own.handled THEN own ELSE superTokenize(own, source)

tokenize(this, source, pos) ==
    LET own == IF this.handlebarsKind = "HTML"
               THEN tokenizeHTML(this, source, pos)
               ELSE tokenizeExpression(this, source, pos)
    IN  IF own.handled THEN own ELSE superTokenize(own, source)

\* ------------------------------------------------ the rest of the class
\* a copy that takes the default sub-mode instead of this.handlebarsKind
makeClone_dropSubMode(this) ==
    HandlebarsState(this.modeId, this.kind, "HTML", this.lastTagName,
                    this.lastAttributeName, this.embeddedContentType,
                    this.attributeValueQuote, this.attributeValueLength)

\* a copy that takes the default phase instead of this.kind
makeClone_dropKind(this) ==
    HandlebarsState(this.modeId, "Content", this.handlebarsKind, this.lastTagName,
                    this.lastAttributeName, this.embeddedContentType,
                    this.attributeValueQuote, this.attributeValueLength)

makeClone(this) ==
    HandlebarsState(this.modeId, this.kind, this.handlebarsKind, this.lastTagName,
                    this.lastAttributeName, this.embeddedContentType,
                    this.attributeValueQuote, this.attributeValueLength)

\* htmlMode.State.equals: another markup state with equal markup fields
superEquals(this, other) ==
    /\ other.cls \in {"State", "HandlebarsState"}
    /\ Inherited(other) = Inherited(this)

equals(this, other) ==
    IF other.cls = "HandlebarsState" THEN superEquals(this, other) ELSE FALSE

\* ------------------------------------------------------- HandlebarsMode
getInitialState ==
    HandlebarsState(ModeId, "Content", "HTML", <<>>, <<>>, <<>>, <<>>, 0)

Null == [null |-> TRUE]

\* HTMLMode.getLeavingNestedModeData: `found` is the host's finding that
\* the nested block ends on this line.
superGetLeavingNestedModeData(line, state, found) ==
    IF found
    THEN [nestedModeBuffer |-> <<>>,
          bufferAfterNestedMode |-> line,
          stateAfterNestedMode |-> HtmlState(ModeId, "Content", <<>>, <<>>, <<>>, <<>>, 0)]
    ELSE Null

\* a hook that keeps the sub-mode of the state passed in
getLeavingNestedModeData_keepSubMode(line, state, found) ==
    LET leavingNestedModeData == superGetLeavingNestedModeData(line, state, found)
    IN  IF leavingNestedModeData # Null
        THEN [leavingNestedModeData EXCEPT !.stateAfterNestedMode =
                 HandlebarsState(ModeId, "Content", state.handlebarsKind,
                                 <<>>, <<>>, <<>>, <<>>, 0)]
        ELSE leavingNestedModeData

getLeavingNestedModeData(line, state, found) ==
    LET leavingNestedModeData == superGetLeavingNestedModeData(line, state, found)
    IN  IF leavingNestedModeData # Null
        THEN [leavingNestedModeData EXCEPT !.stateAfterNestedMode =
                 HandlebarsState(ModeId, "Content", "HTML", <<>>, <<>>, <<>>, <<>>, 0)]
        ELSE leavingNestedModeData

\* ------------------------------------------------------------ the editor
RECURSIVE SplitLines(_)
SplitLines(doc) ==
    IF HasBreak(doc) THEN <<FirstLine(doc)>> \o SplitLines(AfterFirstLine(doc))
    ELSE <<doc>>

VARIABLES
    input,      \* the document and the sub-mode tokenization starts in
    source,     \* the line being tokenized
    pending,    \* the lines after it
    pos,        \* the cursor in `source`
    heap,       \* the state objects allocated so far
    cur,        \* the object tokenize is mutating
    saved,      \* the state kept for the start of this line
    original,   \* the value `saved` had when it was cloned
    last,       \* the last operation and its outcome
    consumed,   \* the spans consumed on this line, concatenated
    host,       \* the host tokenizer run alone on the same document
    resets,     \* nested-mode resets so far
    tokens      \* the tokens emitted so far, each with the text it covers

vars == <<input, source, pending, pos, heap, cur, saved, original, last,
          consumed, host, resets, tokens>>

InitialHost ==
    [state |-> HtmlState(ModeId, "Content", <<>>, <<>>, <<>>, <<>>, 0),
     pos |-> 0, type |-> "", from |-> 0, to |-> 0]

\* The state the first line of the document starts from: the mode's
\* initial state, or the end state of a line before the document that left
\* an expression open.
StartState(startKind) == [getInitialState EXCEPT !.handlebarsKind = startKind]

\* The editor tokenizes a line on a clone of the state kept for its start.
Started ==
    /\ source = Head(SplitLines(input.doc))
    /\ pending = Tail(SplitLines(input.doc))
    /\ pos = 0
    /\ heap = <<StartState(input.startKind), makeClone(StartState(input.startKind))>>
    /\ cur = 2
    /\ saved = 1
    /\ original = StartState(input.startKind)
    /\ last = [op |-> "init"]
    /\ consumed = <<>>
    /\ host = InitialHost
    /\ resets = 0
    /\ tokens = <<>>

Init ==
    /\ input \in [doc : Docs, startKind : States]
    /\ Started

HostStep ==
    IF host.pos < Len(source)
    THEN LET h == htmlTokenize(host.state, source, host.pos)
         IN  [state |-> h.state, pos |-> h.pos, type |-> h.type,
              from |-> host.pos, to |-> h.pos]
    ELSE host

\* One call of the tokenize loop: state.tokenize(stream) while !stream.eos().
Tokenize ==
    /\ pos < Len(source)
    /\ LET r == tokenize(heap[cur], source, pos)
       IN  /\ heap' = [heap EXCEPT ![cur] = r.state]
           /\ pos' = r.pos
           /\ last' = [op |-> "tokenize", type |-> r.type, from |-> pos, to |-> r.pos,
                       text |-> SubSeq(source, pos + 1, r.pos),
                       before |-> heap[cur], after |-> r.state,
                       delegated |-> r.delegated, rewoundTo |-> r.rewoundTo]
           /\ consumed' = consumed \o SubSeq(source, pos + 1, r.pos)
           /\ tokens' = Append(tokens, [type |-> r.type,
                                        text |-> SubSeq(source, pos + 1, r.pos)])
    /\ host' = HostStep
    /\ UNCHANGED <<input, source, pending, cur, saved, original, resets>>

\* End of line: the end state is kept and a clone of it starts the next line.
NextLine ==
    /\ pos = Len(source)
    /\ pending # <<>>
    /\ source' = Head(pending)
    /\ pending' = Tail(pending)
    /\ pos' = 0
    /\ heap' = Append(heap, makeClone(heap[cur]))
    /\ cur' = Len(heap) + 1
    /\ saved' = cur
    /\ original' = heap[cur]
    /\ last' = [op |-> "clone"]
    /\ consumed' = <<>>
    /\ host' = [host EXCEPT !.pos = 0]
    /\ UNCHANGED <<input, resets, tokens>>

\* The editor compares the end state of a line with another state: the
\* state kept for the start of the line, the end state itself, or a plain
\* markup state.
CheckEquals ==
    /\ pos = Len(source)
    /\ \E other \in {heap[saved], heap[cur], host.state} :
          last' = [op |-> "equals", this |-> heap[cur], other |-> other,
                   result |-> equals(heap[cur], other)]
    /\ UNCHANGED <<input, source, pending, pos, heap, cur, saved, original,
                   consumed, host, resets, tokens>>

\* At the start of a line the editor asks whether a nested block is left here.
LeaveNestedMode ==
    /\ pos = 0
    /\ last.op \in {"init", "clone"}
    /\ resets < MaxResets
    /\ \E found \in BOOLEAN :
          LET data == getLeavingNestedModeData(source, heap[cur], found)
          IN  /\ last' = [op |-> "leave", passed |-> heap[cur], found |-> found,
                          data |-> data]
              /\ IF found
                 THEN /\ heap' = Append(heap, data.stateAfterNestedMode)
                      /\ cur' = Len(heap) + 1
                      /\ resets' = resets + 1
                      /\ host' = [host EXCEPT !.state =
                            superGetLeavingNestedModeData(source, host.state, found)
                                .stateAfterNestedMode]
                 ELSE UNCHANGED <<heap, cur, resets, host>>
    /\ UNCHANGED <<input, source, pending, pos, saved, original, consumed, tokens>>

Next == Tokenize \/ NextLine \/ CheckEquals \/ LeaveNestedMode

Spec == Init /\ [][Next]_vars

\* ------------------------------------------- single lines `{{ body }}`
\* Expression bodies: non-empty runs without whitespace and without `}`.
WordChunks == {<<"a">>, <<"{">>, <<"#">>, <<"/">>, <<"<">>, ElseWord}

RECURSIVE WordsOf(_)
WordsOf(n) ==
    IF n = 0 THEN {<<>>}
    ELSE LET p == WordsOf(n - 1) IN p \cup {w \o c : w \in p, c \in WordChunks}

Words == WordsOf(MaxWordChunks) \ {<<>>}

\* `{{#if cond}}`
IfCondLine == <<"{", "{", "#", "i", "f", " ", "c", "o", "n", "d", "}", "}">>

LineInputs ==
    {[doc |-> <<"{", "{">> \o w \o <<"}", "}">>, startKind |-> "HTML",
      form |-> "Expression", w |-> w] : w \in Words}
    \cup
    {[doc |-> <<"{", "{", "{">> \o w \o <<"}", "}", "}">>, startKind |-> "HTML",
      form |-> "UnescapedExpression", w |-> w] : w \in Words}
    \cup
    {[doc |-> IfCondLine, startKind |-> "HTML", form |-> "block", w |-> <<>>]}

InitLines ==
    /\ input \in LineInputs
    /\ Started

\* One line tokenized from the initial state to its end.
SpecLines == InitLines /\ [][Tokenize]_vars

\* ================================================================ claims
Called == last.op = "tokenize"

InExpression(s) == s.handlebarsKind \in {"Expression", "UnescapedExpression"}

\* C1: equals(other) is true exactly when other is a HandlebarsState with
\* the same sub-mode and the same inherited fields as this state.
C1_EqualsIsExact ==
    last.op = "equals" =>
        (last.result <=>
            /\ last.other.cls = "HandlebarsState"
            /\ last.other.handlebarsKind = last.this.handlebarsKind
            /\ Inherited(last.other) = Inherited(last.this))

\* C2: tokenizing a line neither loses nor duplicates characters: the
\* spans consumed so far are exactly the text before the cursor, a call
\* never leaves the cursor before where it found it, a rewind after `else`
\* returns to where the call started, and at the end of the line the
\* spans make up the line.
C2_NoLossNoDuplication ==
    /\ consumed = SubSeq(source, 1, pos)
    /\ pos = Len(source) => consumed = source
    /\ Called =>
          /\ last.to = pos
          /\ last.to >= last.from
          /\ last.text = SubSeq(source, last.from + 1, last.to)
          /\ last.rewoundTo # -1 => last.rewoundTo = last.from

C2_Witness ==
    /\ Called
    /\ pos = Len(source)
    /\ last.from > 0
    /\ last.rewoundTo = last.from
    /\ last.to > last.from + 4
    /\ consumed = source

\* C3: Expression is left only by consuming `}}` (Embed) and
\* UnescapedExpression only by consuming `}}}` (EmbedUnescaped); `}}` not
\* followed by `}` never changes UnescapedExpression, and `}}}` in
\* Expression closes after two characters, leaving the third `}`.
C3_ClosersNotInterchangeable ==
    Called =>
        LET b == last.before.handlebarsKind
            a == last.after.handlebarsKind
        IN  /\ (b = "Expression" /\ a # b) =>
                  a = "HTML" /\ last.text = <<"}", "}">> /\ last.type = EMBED
            /\ (b = "UnescapedExpression" /\ a # b) =>
                  a = "HTML" /\ last.text = <<"}", "}", "}">>
                             /\ last.type = EMBED_UNESCAPED
            /\ (b = "UnescapedExpression"
                  /\ StartsWith(source, last.from, <<"}", "}">>)
                  /\ ~StartsWith(source, last.from, <<"}", "}", "}">>)) =>
                  a = "UnescapedExpression"
            /\ (b = "Expression" /\ StartsWith(source, last.from, <<"}", "}", "}">>)) =>
                  /\ a = "HTML"
                  /\ last.to = last.from + 2
                  /\ peek(source, pos) = "}"

C3_Witness ==
    /\ Called
    /\ last.before.handlebarsKind = "Expression"
    /\ StartsWith(source, last.from, <<"}", "}", "}">>)
    /\ last.after.handlebarsKind = "HTML"
    /\ pos = last.from + 2

\* C4: a call changes the sub-mode only in the four delimiter transitions;
\* a whitespace, Keyword or Variable token and a delegated call leave it as
\* it was, and no call goes from one expression sub-mode to the other.
C4_OnlyFourTransitions ==
    Called =>
        LET b == last.before.handlebarsKind
            a == last.after.handlebarsKind
        IN  /\ a # b =>
                  \/ b = "HTML" /\ a = "UnescapedExpression"
                       /\ last.text = <<"{", "{", "{">> /\ last.type = EMBED_UNESCAPED
                  \/ b = "HTML" /\ a = "Expression"
                       /\ last.text = <<"{", "{">> /\ last.type = EMBED
                  \/ b = "Expression" /\ a = "HTML"
                       /\ last.text = <<"}", "}">> /\ last.type = EMBED
                  \/ b = "UnescapedExpression" /\ a = "HTML"
                       /\ last.text = <<"}", "}", "}">> /\ last.type = EMBED_UNESCAPED
            /\ (last.type \in {"", KEYWORD, TYPE_VARIABLE} \/ last.delegated) => a = b
            /\ ~(InExpression(last.before) /\ InExpression(last.after) /\ a # b)

C4_Witness ==
    /\ Called
    /\ last.delegated
    /\ last.before.handlebarsKind = "UnescapedExpression"
    /\ last.after.handlebarsKind = "UnescapedExpression"
    /\ last.from > 0

\* C5: in Markup `{{{` at the cursor is consumed as three characters
\* (EmbedUnescaped, UnescapedExpression), `{{` not followed by `{` as two
\* (Embed, Expression), and anything else is left to the host untouched.
C5_LongerOpenerWins ==
    (Called /\ last.before.handlebarsKind = "HTML") =>
        IF StartsWith(source, last.from, <<"{", "{", "{">>)
        THEN /\ last.to = last.from + 3
             /\ last.type = EMBED_UNESCAPED
             /\ last.after.handlebarsKind = "UnescapedExpression"
             /\ ~last.delegated
        ELSE IF StartsWith(source, last.from, <<"{", "{">>)
        THEN /\ last.to = last.from + 2
             /\ last.type = EMBED
             /\ last.after.handlebarsKind = "Expression"
             /\ ~last.delegated
        ELSE /\ last.delegated
             /\ last.after.handlebarsKind = "HTML"
             /\ LET h == htmlTokenize(last.before, source, last.from)
                IN  /\ last.type = h.type
                    /\ last.to = h.pos
                    /\ last.after = h.state

C5_Witness ==
    /\ Called
    /\ last.before.handlebarsKind = "HTML"
    /\ last.from > 0
    /\ StartsWith(source, last.from, <<"{", "{", "{">>)
    /\ last.after.handlebarsKind = "UnescapedExpression"

\* The span from..to is a maximal run of characters /[^\s}]/.
MaximalRun(from, to) ==
    /\ \A i \in (from + 1)..to : source[i] \notin {" ", "\t", "}"}
    /\ to = Len(source) \/ source[to + 1] \in {" ", "\t", "}"}

\* C6: inside an expression, `else` followed by a space, a tab or `}` is a
\* Keyword of exactly 4 characters; `else` followed by any other character
\* is rewound by 4 and the call emits one Variable over the whole run.
C6_ElseKeywordOrVariable ==
    (Called /\ InExpression(last.before) /\ StartsWith(source, last.from, ElseWord)
            /\ last.from + 4 < Len(source)) =>
        IF source[last.from + 5] \in {" ", "\t", "}"}
        THEN /\ last.type = KEYWORD
             /\ last.to = last.from + 4
             /\ last.rewoundTo = -1
        ELSE /\ last.type = TYPE_VARIABLE
             /\ last.rewoundTo = last.from
             /\ last.to > last.from + 4
             /\ MaximalRun(last.from, last.to)

C6_Witness ==
    /\ Called
    /\ InExpression(last.before)
    /\ StartsWith(source, last.from, ElseWord \o <<"a">>)
    /\ last.type = TYPE_VARIABLE
    /\ last.to = last.from + 5

Closer(kind) == IF kind = "Expression" THEN <<"}", "}">> ELSE <<"}", "}", "}">>

Opener(kind) == IF kind = "Expression" THEN <<"{", "{">> ELSE <<"{", "{", "{">>

\* C7: an expression left open is resumed on the next line: an opening
\* delimiter enters its expression sub-mode, and from then on every
\* tokenize call and every hand-over of a clone to the next line keeps
\* that sub-mode, except the call that consumes the matching closing
\* delimiter, which makes it Markup.
C7_OpenExpressionResumes ==
    [][ last'.op \in {"tokenize", "clone"} =>
          /\ (last'.op = "tokenize" /\ heap[cur].handlebarsKind = "HTML"
                /\ \E k \in {"Expression", "UnescapedExpression"} :
                      last'.text = Opener(k)) =>
                last'.text = Opener(heap'[cur'].handlebarsKind)
          /\ InExpression(heap[cur]) =>
                \/ heap'[cur'].handlebarsKind = heap[cur].handlebarsKind
                \/ /\ last'.op = "tokenize"
                   /\ last'.text = Closer(heap[cur].handlebarsKind)
                   /\ heap'[cur'].handlebarsKind = "HTML"
      ]_vars

\* Opened on one line of this document, closed on a later one.
C7_Witness ==
    /\ input.startKind = "HTML"
    /\ Called
    /\ Len(heap) > 2
    /\ original.handlebarsKind = "Expression"
    /\ last.before.handlebarsKind = "Expression"
    /\ last.text = <<"}", "}">>
    /\ heap[cur].handlebarsKind = "HTML"

\* C8: makeClone returns a new object equal to the original in the
\* sub-mode and in every inherited field, and tokenize calls on the clone
\* leave the original as it was when it was cloned.
C8_CloneEqualAndIndependent ==
    /\ cur # saved
    /\ heap[saved] = original
    /\ last.op \in {"init", "clone"} =>
          /\ heap[cur].handlebarsKind = heap[saved].handlebarsKind
          /\ Inherited(heap[cur]) = Inherited(heap[saved])
          /\ heap[cur].cls = "HandlebarsState"

C8_Witness ==
    /\ Called
    /\ Len(heap) > 2
    /\ heap[saved] = original
    /\ original.kind = "OpeningStartTag"
    /\ heap[cur].kind = "Content"

\* The reset state, field by field.
ResetState ==
    [cls |-> "HandlebarsState", modeId |-> "handlebars", kind |-> "Content",
     handlebarsKind |-> "HTML", lastTagName |-> <<>>, lastAttributeName |-> <<>>,
     embeddedContentType |-> <<>>, attributeValueQuote |-> <<>>,
     attributeValueLength |-> 0]

\* C9: getInitialState is the reset state; when the host reports that a
\* nested block is left, the state after the nested mode is the reset
\* state whatever state was passed in, and when the host reports nothing
\* the hook returns that absent result.
C9_FreshStateIsReset ==
    /\ getInitialState = ResetState
    /\ (last.op = "init" /\ input.startKind = "HTML") => heap[cur] = ResetState
    /\ last.op = "leave" =>
          IF last.found
          THEN /\ last.data.stateAfterNestedMode = ResetState
               /\ heap[cur] = ResetState
               /\ last.data.bufferAfterNestedMode = source
          ELSE last.data = Null

C9_Witness ==
    /\ last.op = "leave"
    /\ last.found
    /\ last.passed.handlebarsKind = "Expression"
    /\ last.passed.kind = "OpeningStartTag"
    /\ heap[cur] = ResetState

NoOpener(doc) ==
    \A i \in 1..(Len(doc) - 1) : ~(doc[i] = "{" /\ doc[i + 1] = "{")

\* C10: on a document without `{{`, tokenizing from the initial state
\* gives, call by call, the token types, spans and inherited fields that
\* the host tokenizer alone gives, and the sub-mode stays Markup.
C10_DelegationTransparency ==
    (input.startKind = "HTML" /\ NoOpener(input.doc)) =>
        /\ heap[cur].handlebarsKind = "HTML"
        /\ Inherited(heap[cur]) = Inherited(host.state)
        /\ pos = host.pos
        /\ Called =>
              /\ last.delegated
              /\ last.type = host.type
              /\ last.from = host.from
              /\ last.to = host.to

C10_Witness ==
    /\ input.startKind = "HTML"
    /\ NoOpener(input.doc)
    /\ Called
    /\ last.type = "tag"
    /\ \E i \in 1..Len(input.doc) : input.doc[i] = "{"
    /\ heap[cur].lastTagName # <<>>

\* ------------------------------------------------------- whole lines
Done == pos = Len(source)

\* The body w is one the variable rule takes whole: it starts with neither
\* `#` nor `/` and is not the word `else`.
PlainBody(w) == w # <<>> /\ w[1] \notin {"#", "/"} /\ w # ElseWord

DelimiterType(form) == IF form = "Expression" THEN EMBED ELSE EMBED_UNESCAPED

\* Opener, Variable(w), closer, back in Markup.
ThreeTokens(form, w) ==
    /\ tokens = <<[type |-> DelimiterType(form), text |-> Opener(form)],
                  [type |-> TYPE_VARIABLE, text |-> w],
                  [type |-> DelimiterType(form), text |-> Closer(form)]>>
    /\ heap[cur].handlebarsKind = "HTML"

\* C11 as stated: for every plain body w, `{{{w}}}` yields EmbedUnescaped,
\* Variable(w), EmbedUnescaped and `{{w}}` yields Embed, Variable(w), Embed,
\* ending in Markup.
C11_AnyPlainBody ==
    (Done /\ input.form \in {"Expression", "UnescapedExpression"}
          /\ PlainBody(input.w)) =>
        ThreeTokens(input.form, input.w)

\* C11 amended: the same, where for `{{w}}` the body w does not start
\* with `{` (`{{` followed by `{` is the opening delimiter `{{{`).
C11_PlainBodyNotBrace ==
    (Done /\ input.form \in {"Expression", "UnescapedExpression"}
          /\ PlainBody(input.w)
          /\ (input.form = "Expression" => input.w[1] # "{")) =>
        ThreeTokens(input.form, input.w)

C11_Witness ==
    /\ Done
    /\ input.form = "UnescapedExpression"
    /\ input.w = <<"{", "e", "l", "s", "e", "a">>
    /\ ThreeTokens(input.form, input.w)

\* C12 as stated: `{{#if cond}}` yields the tokens Embed, Keyword(`#if`),
\* Variable(`cond`), Embed and ends in Markup.
C12_IfCondFourTokens ==
    (Done /\ input.doc = IfCondLine) =>
        /\ tokens = <<[type |-> EMBED, text |-> <<"{", "{">>],
                      [type |-> KEYWORD, text |-> <<"#", "i", "f">>],
                      [type |-> TYPE_VARIABLE, text |-> <<"c", "o", "n", "d">>],
                      [type |-> EMBED, text |-> <<"}", "}">>]>>
        /\ heap[cur].handlebarsKind = "HTML"

\* C12 amended: `{{#if cond}}` yields Embed, Keyword(`#if`), a token of
\* empty type covering the space, Variable(`cond`), Embed, and ends in
\* Markup.
C12_IfCondWithSpaceToken ==
    (Done /\ input.doc = IfCondLine) =>
        /\ tokens = <<[type |-> EMBED, text |-> <<"{", "{">>],
                      [type |-> KEYWORD, text |-> <<"#", "i", "f">>],
                      [type |-> "", text |-> <<" ">>],
                      [type |-> TYPE_VARIABLE, text |-> <<"c", "o", "n", "d">>],
                      [type |-> EMBED, text |-> <<"}", "}">>]>>
        /\ heap[cur].handlebarsKind = "HTML"

C12_Witness ==
    /\ Done
    /\ input.doc = IfCondLine
    /\ Len(tokens) = 5
    /\ tokens[2].type = KEYWORD
    /\ tokens[4].type = TYPE_VARIABLE

\* --------------------------------------------------- inside an expression
\* C13: inside an expression, with `#` or `/` at the cursor, the call
\* consumes the maximal run of characters /[^\s}]/, emits Keyword and
\* leaves the sub-mode as it was; the `else` and variable rules are not
\* reached, so `#else` or `/elsea` is one Keyword.
C13_HashSlashKeyword ==
    (Called /\ InExpression(last.before) /\ peek(source, last.from) \in {"#", "/"}) =>
        /\ last.type = KEYWORD
        /\ ~last.delegated
        /\ last.rewoundTo = -1
        /\ last.to > last.from
        /\ MaximalRun(last.from, last.to)
        /\ last.after.handlebarsKind = last.before.handlebarsKind

C13_Witness ==
    /\ Called
    /\ InExpression(last.before)
    /\ last.text = <<"/">> \o ElseWord \o <<"a">>
    /\ last.type = KEYWORD

\* The span from..to is a maximal run of whitespace.
MaximalWhitespace(from, to) ==
    /\ \A i \in (from + 1)..to : source[i] \in {" ", "\t"}
    /\ to = Len(source) \/ source[to + 1] \notin {" ", "\t"}

\* C14: inside an expression a run of whitespace at the cursor is consumed
\* whole as one token of empty type, the sub-mode unchanged; and no
\* Keyword or Variable token of this layer contains whitespace or `}`.
C14_WhitespaceToken ==
    Called =>
        /\ (InExpression(last.before) /\ peek(source, last.from) \in {" ", "\t"}) =>
              /\ last.type = ""
              /\ ~last.delegated
              /\ last.to > last.from
              /\ MaximalWhitespace(last.from, last.to)
              /\ last.after.handlebarsKind = last.before.handlebarsKind
        /\ (~last.delegated /\ last.type \in {KEYWORD, TYPE_VARIABLE}) =>
              \A i \in 1..Len(last.text) : last.text[i] \notin {" ", "\t", "}"}

C14_Witness ==
    /\ Called
    /\ InExpression(last.before)
    /\ ~last.delegated
    /\ last.text = <<" ", "\t">>
    /\ peek(source, pos) = "#"

\* C15: a call handled by this layer consumes at least one character, any
\* other call is delegated, and with a host that consumes at least one
\* character every call moves the cursor forward and stays within the
\* line: a line of n characters is tokenized in at most n calls.
C15_EveryCallAdvances ==
    /\ \A i \in 1..Len(tokens) : Len(tokens[i].text) >= 1
    /\ Called =>
          /\ last.to > last.from
          /\ last.to <= Len(source)
          /\ ~last.delegated =>
                last.type \in {EMBED, EMBED_UNESCAPED, "", KEYWORD, TYPE_VARIABLE}

\* The rewinding path, taken after a first token on the line.
C15_Witness ==
    /\ Called
    /\ Done
    /\ last.from > 0
    /\ last.rewoundTo = last.from
    /\ last.type = TYPE_VARIABLE
    /\ peek(source, last.from + 4) = "/"
    /\ Len(tokens) = 2

\* ------------------------------------------------------ the token stream
IsDelimiter(t) == t.type \in {EMBED, EMBED_UNESCAPED}

Delimiters == SelectSeq(tokens, IsDelimiter)

KindOpenedBy(t) ==
    IF t.type = EMBED /\ t.text = <<"{", "{">> THEN "Expression"
    ELSE IF t.type = EMBED_UNESCAPED /\ t.text = <<"{", "{", "{">>
    THEN "UnescapedExpression"
    ELSE "none"

C17_HostOnlyOnStrayBrace ==
    (Called /\ InExpression(last.before)) =>
        (last.delegated <=>
            /\ peek(source, last.from) = "}"
            /\ ~StartsWith(source, last.from, Closer(last.before.handlebarsKind)))

C17_Witness ==
    /\ Called
    /\ last.before.handlebarsKind = "UnescapedExpression"
    /\ last.delegated
    /\ StartsWith(source, last.from, <<"}", "}">>)
    /\ last.to = last.from + 1

Contains(text, literal) ==
    \E i \in 0..(Len(text) - Len(literal)) : StartsWith(text, i, literal)

\* C18: expressions do not nest: inside an expression `{{` (or `{{{`) at
\* the cursor is consumed as part of a Variable run, and a token holding
\* `{{` is a Variable or a Keyword; no delimiter token is emitted and the
\* sub-mode stays as it was.
C18_NoNesting ==
    (Called /\ InExpression(last.before)) =>
        /\ StartsWith(source, last.from, <<"{", "{">>) =>
              /\ last.type = TYPE_VARIABLE
              /\ ~last.delegated
              /\ last.to >= last.from + 2
              /\ MaximalRun(last.from, last.to)
        /\ Contains(last.text, <<"{", "{">>) =>
              /\ last.type \in {TYPE_VARIABLE, KEYWORD}
              /\ last.after.handlebarsKind = last.before.handlebarsKind

C18_Witness ==
    /\ Called
    /\ last.before.handlebarsKind = "UnescapedExpression"
    /\ last.text = <<"{", "{", "{">>
    /\ last.type = TYPE_VARIABLE
    /\ heap[cur].handlebarsKind = "UnescapedExpression"

\* The state with other inherited markup fields.
WithMarkup(state, kind, tagName) ==
    [state EXCEPT !.kind = kind, !.lastTagName = tagName]

\* C19: which rule of this layer matches depends on the sub-mode and the
\* text only: with any other markup phase and tag name the call is
\* handled or delegated alike and, when handled, gives the same token,
\* cursor and sub-mode; a handled call leaves every inherited field as it
\* was, so inherited fields change only in delegated calls.
C19_MarkupStateUntouched ==
    Called =>
        /\ ~last.delegated => Inherited(last.after) = Inherited(last.before)
        /\ \A k \in HtmlStates, t \in {<<>>, <<"a">>} :
              LET r == tokenize(WithMarkup(last.before, k, t), source, last.from)
              IN  /\ r.delegated = last.delegated
                  /\ ~r.delegated =>
                        /\ r.type = last.type
                        /\ r.pos = last.to
                        /\ r.state.handlebarsKind = last.after.handlebarsKind
                        /\ Inherited(r.state) =
                              Inherited(WithMarkup(last.before, k, t))

C19_Witness ==
    /\ Called
    /\ last.before.kind = "OpeningStartTag"
    /\ last.before.lastTagName = <<"a">>
    /\ last.text = <<"{", "{">>
    /\ last.type = EMBED
    /\ Inherited(last.after) = Inherited(last.before)

\* C20: inside an expression, `else` as the last text of the line is
\* rewound by 4 and emitted as one Variable covering `else`; the cursor
\* ends at the end of the line and the sub-mode is unchanged.
C20_ElseAtEndOfLine ==
    (Called /\ InExpression(last.before) /\ StartsWith(source, last.from, ElseWord)
            /\ last.from + 4 = Len(source)) =>
        /\ last.type = TYPE_VARIABLE
        /\ ~last.delegated
        /\ last.rewoundTo = last.from
        /\ last.text = ElseWord
        /\ pos = Len(source)
        /\ last.after.handlebarsKind = last.before.handlebarsKind

C20_Witness ==
    /\ Called
    /\ last.before.handlebarsKind = "Expression"
    /\ input.startKind = "HTML"
    /\ last.text = ElseWord
    /\ last.type = TYPE_VARIABLE
    /\ Done
    /\ pending # <<>>

====
